---- MODULE Spec2Model ----
(***************************************************************************)
(* y+ wall distance estimation tool (src/main.py).                         *)
(*                                                                         *)
(* The program is a set of pure functions over Python floats, composed by  *)
(* calculate_all_parameters.  The model keeps the floating-point nature of *)
(* the arithmetic: a float is a binary floating-point number with a Prec   *)
(* bit mantissa and a binary exponent of at most EMax, every arithmetic    *)
(* operation rounds to nearest-even, overflow gives an infinity and an     *)
(* invalid operation gives a NaN, as IEEE-754 arithmetic does.  Python's   *)
(* float is the same format with a 53 bit mantissa and the same range of   *)
(* exponents; the model's mantissa is narrower so that TLC's integers can  *)
(* hold the intermediate results, so a decimal literal of the source       *)
(* (5e5, 1e9) stands for the model float nearest to it.  The library       *)
(* functions math.log and math.log10 are computed with three extra bits    *)
(* and rounded once (about one unit in the last place); the power operator *)
(* is exact for squares and within a few units otherwise.  Results below   *)
(* 2^(-EMax) are flushed to zero (no subnormal numbers).                   *)
(*                                                                         *)
(* Python exceptions are modelled as outcomes: every function returns a    *)
(* record [exc, msg, val] in which exc is "none" for a normal return and   *)
(* the exception's class name otherwise.                                   *)
(***************************************************************************)
EXTENDS Integers, Sequences, FiniteSets, TLC

\* Width of the mantissa of a model float, in bits.
Prec == 11

\* Largest binary exponent of a finite model float: |x| < 2^(EMax+1).
EMax == 1023

\* Width of the mantissa used inside log, log10 and pow: three guard bits.
WPrec == Prec + 3

(***************************************************************************)
(* TLC evaluates the definitions of a LET and the arguments of an operator *)
(* each time they are used.  Let(x, K) evaluates x once and passes its     *)
(* value to K.                                                             *)
(***************************************************************************)
Let(x, K(_)) == CHOOSE r \in {K(v) : v \in {x}} : TRUE

(***************************************************************************)
(* Float values.  k is the kind: "fin" (m * 2^e), "inf" (m is the sign),   *)
(* "nan", "complex" (a Python complex number; its components are not      *)
(* modelled, only its type), "int" (a Python int m, as math.ceil returns). *)
(***************************************************************************)
F(m, e) == [k |-> "fin", m |-> m, e |-> e]

Zero == F(0, 0)

Inf(s) == [k |-> "inf", m |-> s, e |-> 0]

NaN == [k |-> "nan", m |-> 0, e |-> 0]

Complex == [k |-> "complex", m |-> 0, e |-> 0]

PyInt(n) == [k |-> "int", m |-> n, e |-> 0]

Abs(n) == IF n < 0 THEN -n ELSE n

Sgn(n) == IF n < 0 THEN -1 ELSE IF n = 0 THEN 0 ELSE 1

RECURSIVE BitLen(_)
BitLen(n) == IF n = 0 THEN 0 ELSE 1 + BitLen(n \div 2)

IsFin(x) == x.k = "fin"

IsZero(x) == x.k = "fin" /\ x.m = 0

IsNaN(x) == x.k = "nan"

IsInf(x) == x.k = "inf"

\* Sign of a float that is not a NaN: -1, 0 or 1.
FSgn(x) == Sgn(x.m)

(***************************************************************************)
(* Round(p, s, a, e): the float nearest to s * a * 2^e with a p bit        *)
(* mantissa (ties to even), a >= 0.  An odd a whose last bit stands for a  *)
(* discarded non-zero remainder (a sticky bit) never produces a tie.       *)
(***************************************************************************)
\* s * q * 2^ex for a mantissa q of p bits, or of p + 1 bits after a carry
Pack(p, s, q, ex) ==
    Let(IF q = 2^p THEN ex + 1 ELSE ex, LAMBDA e1 :
        IF e1 + p - 1 > EMax THEN Inf(s)
        ELSE IF e1 + p - 1 < -EMax THEN Zero
        ELSE F(s * (IF q = 2^p THEN 2^(p - 1) ELSE q), e1))

RoundBits(p, s, a, e, sh) ==
    IF sh <= 0 THEN Pack(p, s, a * 2^(-sh), e + sh)
    ELSE Let(a \div 2^sh, LAMBDA q0 :
         Let(a % 2^sh, LAMBDA rem :
             IF rem > 2^(sh - 1) \/ (rem = 2^(sh - 1) /\ q0 % 2 = 1)
             THEN Pack(p, s, q0 + 1, e + sh)
             ELSE Pack(p, s, q0, e + sh)))

Round(p, s, a, e) ==
    Let(a, LAMBDA v :
        IF v = 0 THEN Zero
        ELSE Let(BitLen(v) - p, LAMBDA sh : RoundBits(p, s, v, e, sh)))

\* Conversion of a Python int literal (|n| < 2^31) to float.
FromInt(p, n) == Round(p, Sgn(n), Abs(n), 0)

Neg(x) == Let(x, LAMBDA v : IF v.k \in {"fin", "inf"} THEN [v EXCEPT !.m = -v.m] ELSE v)

\* Multiplication by a power of two (exact unless it leaves the range).
Scale(p, x, n) ==
    Let(x, LAMBDA v : IF IsFin(v) THEN Round(p, FSgn(v), Abs(v.m), v.e + n) ELSE v)

\* Rounding of a float to a (narrower) mantissa.
RoundTo(p, x) == Scale(p, x, 0)

(***************************************************************************)
(* IEEE-754 multiplication, division, addition and subtraction of floats.  *)
(* Div is only used with a non-zero divisor: Python raises                 *)
(* ZeroDivisionError before the division is made.                          *)
(***************************************************************************)
MulV(p, x, y) ==
    IF IsNaN(x) \/ IsNaN(y) THEN NaN
    ELSE IF IsInf(x) \/ IsInf(y)
         THEN IF IsZero(x) \/ IsZero(y) THEN NaN ELSE Inf(FSgn(x) * FSgn(y))
    ELSE Round(p, FSgn(x) * FSgn(y), Abs(x.m) * Abs(y.m), x.e + y.e)

Mul(p, x, y) == Let(x, LAMBDA a : Let(y, LAMBDA b : MulV(p, a, b)))

\* Quotient of the magnitudes a / b (a, b > 0) with k1 + k2 fraction bits and
\* a sticky last bit, computed in two steps to stay within 31 bits.
QuotSticky(a, b, k1, k2) ==
    Let((a * 2^k1) \div b, LAMBDA q1 :
    Let((a * 2^k1) % b, LAMBDA r1 :
        2 * (q1 * 2^k2 + ((r1 * 2^k2) \div b)) + (IF (r1 * 2^k2) % b = 0 THEN 0 ELSE 1)))

DivV(p, x, y) ==
    IF IsNaN(x) \/ IsNaN(y) THEN NaN
    ELSE IF IsInf(x) THEN (IF IsInf(y) THEN NaN ELSE Inf(FSgn(x) * FSgn(y)))
    ELSE IF IsInf(y) \/ IsZero(x) THEN Zero
    ELSE \* k brings the quotient to at least p + 2 bits
         Let(p + 2 + BitLen(Abs(y.m)) - BitLen(Abs(x.m)), LAMBDA k :
             Round(p, FSgn(x) * FSgn(y),
                   QuotSticky(Abs(x.m), Abs(y.m), k \div 2, k - (k \div 2)),
                   x.e - y.e - k - 1))

Div(p, x, y) == Let(x, LAMBDA a : Let(y, LAMBDA b : DivV(p, a, b)))

\* y's magnitude ya (of yl bits) shifted right by d bits, the bits shifted
\* out being kept as a sticky last bit
ShiftSticky(ya, yl, d) ==
    IF d <= 0 THEN ya * 2^(-d)
    ELSE IF d > yl THEN 1
    ELSE Let(ya \div 2^d, LAMBDA y0 :
             IF ya % 2^d # 0 /\ y0 % 2 = 0 THEN y0 + 1 ELSE y0)

\* x + y for finite non-zero x, y with the exponent of x's leading bit not
\* below that of y's: x is scaled to p + 3 bits (xs is the shift) and y is
\* aligned to it.
AddAligned(p, x, y, xs) ==
    Let(x.m * 2^xs + FSgn(y) * ShiftSticky(Abs(y.m), BitLen(Abs(y.m)), x.e - xs - y.e),
        LAMBDA sum : Round(p, Sgn(sum), Abs(sum), x.e - xs))

AddV(p, x, y) ==
    IF IsNaN(x) \/ IsNaN(y) THEN NaN
    ELSE IF IsInf(x) THEN (IF IsInf(y) /\ x.m # y.m THEN NaN ELSE x)
    ELSE IF IsInf(y) THEN y
    ELSE IF IsZero(x) THEN RoundTo(p, y)
    ELSE IF IsZero(y) THEN RoundTo(p, x)
    ELSE Let(BitLen(Abs(x.m)), LAMBDA xl :
         Let(BitLen(Abs(y.m)), LAMBDA yl :
             IF x.e + xl >= y.e + yl
             THEN AddAligned(p, x, y, p + 3 - xl)
             ELSE AddAligned(p, y, x, p + 3 - yl)))

Add(p, x, y) == Let(x, LAMBDA a : Let(y, LAMBDA b : AddV(p, a, b)))

Sub(p, x, y) == Add(p, x, Neg(y))

\* The float nearest to the fraction n / d, for |n|, d < 2^p.
FromRat(p, n, d) == Div(p, FromInt(p, n), FromInt(p, d))

(***************************************************************************)
(* Comparison of floats.  Every comparison with a NaN is false.            *)
(***************************************************************************)
Top(x) == IF IsInf(x) THEN EMax + 2 ELSE x.e + BitLen(Abs(x.m))

\* comparison of the magnitudes of two finite floats with the same Top
MantCmp(ax, lx, ay, ly) ==
    Let(ax * 2^(IF lx > ly THEN 0 ELSE ly - lx) - ay * 2^(IF lx > ly THEN lx - ly ELSE 0),
        LAMBDA d : Sgn(d))

MagCmp(x, y) ==
    Let(Top(x) - Top(y), LAMBDA d :
        IF d # 0 THEN Sgn(d)
        ELSE IF IsInf(x) THEN 0
        ELSE MantCmp(Abs(x.m), BitLen(Abs(x.m)), Abs(y.m), BitLen(Abs(y.m))))

FCmp(x, y) ==
    IF FSgn(x) # FSgn(y) THEN Sgn(FSgn(x) - FSgn(y))
    ELSE IF FSgn(x) = 0 THEN 0
    ELSE FSgn(x) * MagCmp(x, y)

Ordered(x, y) == x.k \in {"fin", "inf"} /\ y.k \in {"fin", "inf"}

\* the comparison of x with y: -1, 0 or 1, and 2 when one of them is a NaN
Cmp(x, y) == Let(x, LAMBDA a : Let(y, LAMBDA b : IF Ordered(a, b) THEN FCmp(a, b) ELSE 2))

Lt(x, y) == Cmp(x, y) = -1

Le(x, y) == Cmp(x, y) \in {-1, 0}

Gt(x, y) == Cmp(x, y) = 1

Ge(x, y) == Cmp(x, y) \in {0, 1}

(***************************************************************************)
(* Square root (IEEE-754: correctly rounded) of a float x >= 0.            *)
(***************************************************************************)
RECURSIVE ISqrtIn(_, _, _)
\* largest r in lo..hi with r * r <= n, given lo * lo <= n
ISqrtIn(n, lo, hi) ==
    IF lo = hi THEN lo
    ELSE Let((lo + hi + 1) \div 2, LAMBDA mid :
             IF mid * mid <= n THEN ISqrtIn(n, mid, hi) ELSE ISqrtIn(n, lo, mid - 1))

\* the root of a * 2^s * 2^(e - s), e - s even
SqrtShifted(p, a, e, s) ==
    Let(ISqrtIn(a * 2^s, 0, 2^(p + 1)), LAMBDA r :
        Round(p, 1, 2 * r + (IF r * r = a * 2^s THEN 0 ELSE 1), ((e - s) \div 2) - 1))

Sqrt(p, x) ==
    IF ~IsFin(x) \/ IsZero(x) THEN x
    ELSE Let(2 * p + 1 - BitLen(Abs(x.m)), LAMBDA s0 :
         Let(IF (x.e - s0) % 2 = 0 THEN s0 ELSE s0 + 1, LAMBDA s :
             SqrtShifted(p, Abs(x.m), x.e, s)))

(***************************************************************************)
(* Natural logarithm, exponential and power, evaluated with WPrec bits the *)
(* way a C library does: argument reduction and a short series.            *)
(***************************************************************************)
OneW == FromInt(WPrec, 1)

Ln2W == FromRat(WPrec, 2731, 3940)

Ln10W == FromRat(WPrec, 3919, 1702)

Sqrt2W == FromRat(WPrec, 1393, 985)

\* 2 * (w + w^3/3 + w^5/5 + w^7/7) = ln((1 + w) / (1 - w))
LnSeries(p, w, w2) ==
    Let(Add(p, FromRat(p, 1, 5), Mul(p, w2, FromRat(p, 1, 7))), LAMBDA c5 :
    Let(Add(p, FromRat(p, 1, 3), Mul(p, w2, c5)), LAMBDA c3 :
        Scale(p, Mul(p, w, Add(p, OneW, Mul(p, w2, c3))), 1)))

\* ln(f * 2^k) for f in (sqrt(2)/2, sqrt(2)]
LnReduced(p, f, k) ==
    Let(Div(p, Sub(p, f, OneW), Add(p, f, OneW)), LAMBDA w :
    Let(Mul(p, w, w), LAMBDA w2 :
        Add(p, Mul(p, FromInt(p, k), Ln2W), LnSeries(p, w, w2))))

\* ln x for a finite x > 0, with WPrec bits.
LnV(x, la) ==
    IF Gt(F(x.m, 1 - la), Sqrt2W)
    THEN LnReduced(WPrec, F(x.m, -la), x.e + la)
    ELSE LnReduced(WPrec, F(x.m, 1 - la), x.e + la - 1)

LnW(x) == Let(x, LAMBDA v : Let(BitLen(v.m), LAMBDA la : LnV(v, la)))

\* floor of a finite float of magnitude below 2^30
FloorV(x) ==
    IF x.e >= 0 THEN x.m * 2^(x.e)
    ELSE IF -x.e > 30 THEN (IF x.m < 0 THEN -1 ELSE 0)
    ELSE x.m \div 2^(-x.e)

Floor(x) == Let(x, LAMBDA v : FloorV(v))

\* ceiling of a finite float of magnitude below 2^30
Ceil(x) == -Floor(Neg(x))

\* 1 + r + r^2/2 + ... + r^6/720
ExpSeries(p, r) ==
    Let(Add(p, OneW, Div(p, r, FromInt(p, 6))), LAMBDA t6 :
    Let(Add(p, OneW, Mul(p, Div(p, r, FromInt(p, 5)), t6)), LAMBDA t5 :
    Let(Add(p, OneW, Mul(p, Div(p, r, FromInt(p, 4)), t5)), LAMBDA t4 :
    Let(Add(p, OneW, Mul(p, Div(p, r, FromInt(p, 3)), t4)), LAMBDA t3 :
    Let(Add(p, OneW, Mul(p, Div(p, r, FromInt(p, 2)), t3)), LAMBDA t2 :
        Add(p, OneW, Mul(p, r, t2)))))))

\* e^y = 2^k * e^(y - k ln 2) for the integer k nearest to y / ln 2
ExpV(p, y) ==
    IF IsZero(y) THEN OneW
    ELSE IF Top(y) > 10 THEN (IF y.m > 0 THEN Inf(1) ELSE Zero)
    ELSE Let(Floor(Add(p, Div(p, y, Ln2W), FromRat(p, 1, 2))), LAMBDA k :
         Let(Sub(p, y, Mul(p, FromInt(p, k), Ln2W)), LAMBDA r :
             Scale(p, ExpSeries(p, r), k)))

\* e^y for a finite y, with WPrec bits; an infinity on overflow.
ExpW(y) == Let(y, LAMBDA v : ExpV(WPrec, v))

\* x^y for finite x > 0 and finite y, rounded to Prec bits.
PowPos(x, y) ==
    IF IsZero(y) \/ FCmp(x, FromInt(Prec, 1)) = 0 THEN FromInt(Prec, 1)
    ELSE IF FCmp(y, FromInt(Prec, 2)) = 0 THEN MulV(Prec, x, x)
    ELSE RoundTo(Prec, ExpW(Mul(WPrec, y, LnW(x))))

(***************************************************************************)
(* Outcomes of Python calls and operators.  Bind(o, K) is the sequencing   *)
(* of Python statements: an exception of o ends the function with that     *)
(* exception, otherwise K goes on with o's value.                          *)
(***************************************************************************)
NoVal == [k |-> "none", m |-> 0, e |-> 0]

Ok(v) == [exc |-> "none", msg |-> "", val |-> v]

Raise(type, msg) == [exc |-> type, msg |-> msg, val |-> NoVal]

Raised(o) == o.exc # "none"

Bind(o, K(_)) == CHOOSE r \in {IF Raised(v) THEN v ELSE K(v.val) : v \in {o}} : TRUE

\* A float literal n / d of the source, and an int literal used as a float.
Lit(n, d) == FromRat(Prec, n, d)

IntLit(n) == FromInt(Prec, n)

IsIntegral(y) == IsFin(y) /\ (y.e >= 0 \/ (-y.e < 31 /\ y.m % 2^(-y.e) = 0))

\* x * y of Python numbers (float or complex).
PyMul(x, y) ==
    Let(x, LAMBDA a : Let(y, LAMBDA b :
        IF a.k = "complex" \/ b.k = "complex" THEN Complex ELSE MulV(Prec, a, b)))

\* x / y of Python numbers: ZeroDivisionError for a zero divisor.
PyTrueDiv(x, y) ==
    Let(x, LAMBDA a : Let(y, LAMBDA b :
        IF IsZero(b) THEN Raise("ZeroDivisionError", "division by zero")
        ELSE IF a.k = "complex" \/ b.k = "complex" THEN Ok(Complex)
        ELSE Ok(DivV(Prec, a, b))))

\* x ** y for a float x and a finite non-zero float y that is no odd integer
\* (float_pow of CPython): complex for a negative base and a fractional
\* exponent, OverflowError when the result is out of range.
PyPow(x, y) ==
    Let(x, LAMBDA a : Let(y, LAMBDA b :
        IF a.k = "complex" THEN Ok(Complex)
        ELSE IF IsNaN(a) THEN Ok(NaN)
        ELSE IF IsInf(a) THEN Ok(IF b.m > 0 THEN Inf(1) ELSE Zero)
        ELSE IF IsZero(a)
             THEN IF b.m < 0
                  THEN Raise("ZeroDivisionError", "0.0 cannot be raised to a negative power")
                  ELSE Ok(Zero)
        ELSE IF a.m < 0 /\ ~IsIntegral(b) THEN Ok(Complex)
        ELSE Let(PowPos(F(Abs(a.m), a.e), b), LAMBDA r :
                 IF IsInf(r)
                 THEN Raise("OverflowError", "(34, 'Numerical result out of range')")
                 ELSE Ok(r))))

\* math.log10 and math.log
MathLogBase(x, lnbase) ==
    Let(x, LAMBDA a :
        IF a.k = "complex" THEN Raise("TypeError", "must be real number, not complex")
        ELSE IF IsNaN(a) THEN Ok(NaN)
        ELSE IF Le(a, Zero) THEN Raise("ValueError", "math domain error")
        ELSE IF IsInf(a) THEN Ok(a)
        ELSE Ok(RoundTo(Prec, Div(WPrec, LnW(a), lnbase))))

math_log10(x) == MathLogBase(x, Ln10W)

math_log(x) == MathLogBase(x, OneW)

math_sqrt(x) ==
    Let(x, LAMBDA a :
        IF a.k = "complex" THEN Raise("TypeError", "must be real number, not complex")
        ELSE IF IsNaN(a) THEN Ok(NaN)
        ELSE IF Lt(a, Zero) THEN Raise("ValueError", "math domain error")
        ELSE Ok(Sqrt(Prec, a)))

math_ceil(x) ==
    Let(x, LAMBDA a :
        IF IsInf(a) THEN Raise("OverflowError", "cannot convert float infinity to integer")
        ELSE IF IsNaN(a) THEN Raise("ValueError", "cannot convert float NaN to integer")
        ELSE Ok(PyInt(Ceil(a))))

(***************************************************************************)
(* The functions of src/main.py.                                           *)
(***************************************************************************)
\* line 7: 1e9
SchlichtingLimit == IntLit(1000000000)

cf_schlichting(Re) ==
    IF Le(Re, IntLit(0)) THEN Raise("ValueError", "Re must be positive")
    ELSE IF Ge(Re, SchlichtingLimit)
         THEN Raise("ValueError", "Re out of range for Schlichting correlation (Re < 1e9)")
    ELSE Bind(math_log10(Re), LAMBDA lg :
              PyPow(Sub(Prec, Mul(Prec, IntLit(2), lg), Lit(13, 20)), Neg(Lit(23, 10))))

cf_laminar(Re) ==
    IF Le(Re, IntLit(0)) THEN Raise("ValueError", "Re must be positive")
    ELSE Bind(math_sqrt(Re), LAMBDA rt : PyTrueDiv(Lit(166, 125), rt))

Regimes == {"laminar", "turbulent", "auto"}

\* active_regime with the comparison of line 44 written as Re <= transition_Re
active_regime_inclusive(regime, Re, transition_Re) ==
    IF regime = "auto"
    THEN (IF Le(Re, transition_Re) THEN "laminar" ELSE "turbulent")
    ELSE regime

\* lines 43-46: the regime the estimate is made for
active_regime(regime, Re, transition_Re) ==
    IF regime = "auto"
    THEN (IF Lt(Re, transition_Re) THEN "laminar" ELSE "turbulent")
    ELSE regime

\* lines 53-63, given Re, the regime and Cf
wall_distance_from_cf(u_inf, rho, mu, y_plus, Re, regime, Cf) ==
    Bind(PyPow(u_inf, IntLit(2)), LAMBDA sq :
    Let(PyMul(PyMul(PyMul(Cf, Lit(1, 2)), rho), sq), LAMBDA tau_w :
    Bind(PyTrueDiv(tau_w, rho), LAMBDA quot :
    Bind(math_sqrt(quot), LAMBDA u_tau :
    Bind(PyTrueDiv(PyMul(y_plus, mu), PyMul(rho, u_tau)), LAMBDA y :
         Ok([Re |-> Re, Cf |-> Cf, tau_w |-> tau_w, u_tau |-> u_tau, y |-> y,
             regime |-> regime]))))))

\* lines 48-51: the skin friction coefficient of the regime
skin_friction(regime, Re) ==
    IF regime = "laminar" THEN cf_laminar(Re) ELSE cf_schlichting(Re)

estimate_wall_distance(u_inf, rho, mu, L, y_plus, regime, transition_Re) ==
    Bind(PyTrueDiv(PyMul(PyMul(rho, u_inf), L), mu), LAMBDA Re :
        IF regime \notin Regimes
        THEN Raise("ValueError", "regime must be 'laminar', 'turbulent', or 'auto'")
        ELSE Let(active_regime(regime, Re, transition_Re), LAMBDA active :
             Bind(skin_friction(active, Re), LAMBDA Cf :
                  wall_distance_from_cf(u_inf, rho, mu, y_plus, Re, active, Cf))))

\* line 25: the default of transition_Re
DefaultTransitionRe == IntLit(500000)

\* line 68: the fixed threshold of the boundary-layer correlations
BoundaryLayerThreshold == IntLit(500000)

\* line 71
delta_laminar(length, Re) ==
    Bind(math_sqrt(Re), LAMBDA rt : PyTrueDiv(PyMul(Lit(491, 100), length), rt))

\* line 75
delta_turbulent(length, Re) ==
    Bind(PyTrueDiv(IntLit(1), IntLit(7)), LAMBDA seventh :
    Bind(PyPow(Re, seventh), LAMBDA pw : PyTrueDiv(PyMul(Lit(4, 25), length), pw)))

\* correlation with the comparison of line 68 written as Re <= 5e5
correlation_inclusive(Re) ==
    IF Le(Re, BoundaryLayerThreshold) THEN "laminar" ELSE "turbulent"

\* lines 68-75: the correlation chosen for Re
correlation(Re) == IF Lt(Re, BoundaryLayerThreshold) THEN "laminar" ELSE "turbulent"

calculate_boundary_layer_height(length, Re) ==
    IF Le(Re, IntLit(0)) THEN Raise("ValueError", "Reynolds number must be positive")
    ELSE IF correlation(Re) = "laminar" THEN delta_laminar(length, Re)
    ELSE delta_turbulent(length, Re)

\* line 96
prism_input_invalid(total_thickness, first_cell_height, growth_rate) ==
    \/ Le(total_thickness, IntLit(0))
    \/ Le(first_cell_height, IntLit(0))
    \/ Le(growth_rate, IntLit(1))

calculate_prism_layer_cells(total_thickness, first_cell_height, growth_rate) ==
    IF prism_input_invalid(total_thickness, first_cell_height, growth_rate)
    THEN Raise("ValueError", "Invalid input values for prism layer calculation")
    ELSE Bind(PyTrueDiv(PyMul(total_thickness, Sub(Prec, growth_rate, IntLit(1))),
                        first_cell_height), LAMBDA ratio :
         Bind(math_log(Add(Prec, ratio, IntLit(1))), LAMBDA num :
         Bind(math_log(growth_rate), LAMBDA den :
         Bind(PyTrueDiv(num, den), LAMBDA q : math_ceil(q)))))

(***************************************************************************)
(* The inputs a caller passes.  Each set holds ordinary values, the        *)
(* boundary values of the checks in the code, and values near the ends of  *)
(* the float range.                                                        *)
(***************************************************************************)
\* 2^n as a float
Pow2(n) == Scale(Prec, IntLit(1), n)

AirDensity == Lit(12041, 10000)

AirViscosity == Div(Prec, IntLit(1825), IntLit(100000000))

Velocities == {IntLit(-1), IntLit(0), IntLit(1), IntLit(20), IntLit(100), IntLit(1000000)}

Densities == {IntLit(-1), IntLit(0), IntLit(1), AirDensity}

Viscosities == {IntLit(-1), IntLit(0), IntLit(1), AirViscosity}

Lengths == {IntLit(-1), IntLit(1)}

YPlusTargets == {IntLit(0), IntLit(1), Pow2(100)}

RegimeInputs == Regimes \cup {"transitional"}

TransitionInputs == {DefaultTransitionRe, IntLit(100)}

ReInputs ==
    {IntLit(-5), IntLit(0), Lit(1, 2), IntLit(1), IntLit(2), IntLit(3), IntLit(10),
     IntLit(100), IntLit(1000), IntLit(499000), IntLit(500000), IntLit(501000),
     IntLit(1000000), IntLit(999000000), IntLit(1000000000), IntLit(2000000000)}

Thicknesses ==
    {IntLit(-1), IntLit(0), Pow2(-70), Lit(1, 100), IntLit(1), IntLit(3), IntLit(7),
     IntLit(100)}

CellHeights == {IntLit(-1), IntLit(0), Lit(1, 1000), IntLit(1)}

GrowthRates == {IntLit(0), IntLit(1), Lit(6, 5), IntLit(2)}

\* the arguments of calculate_prism_layer_cells: the combinations of the
\* values above, and a thickness and a cell height at the two ends of the
\* float range
PrismInputs ==
    (Thicknesses \X CellHeights \X GrowthRates)
        \cup {<<Pow2(1000), Pow2(-1000), IntLit(2)>>}

(***************************************************************************)
(* State: a caller that calls the functions of the module one after the    *)
(* other.  fn, args and out are the function called last, its arguments    *)
(* and its outcome; pc is "idle" between calls, "returned" when a call has *)
(* ended, and a line of calculate_all_parameters while that call runs.     *)
(* frame holds the locals of calculate_all_parameters and stages the       *)
(* estimators it has called so far, each with its outcome.  ctx is the     *)
(* regime of the wall-distance result whose Re was passed on to            *)
(* calculate_boundary_layer_height ("none" when Re was given directly).    *)
(***************************************************************************)
VARIABLES pc, fn, args, out, frame, stages, ctx

vars == <<pc, fn, args, out, frame, stages, ctx>>

NoArgs == [length |-> NoVal]

NoOutcome == [exc |-> "pending", msg |-> "", val |-> NoVal]

NoFrame ==
    [res |-> NoVal, Re |-> NoVal, first_cell_height |-> NoVal,
     total_thickness |-> NoVal, total_height |-> NoVal]

Init ==
    /\ pc = "idle"
    /\ fn = "none"
    /\ args = NoArgs
    /\ out = NoOutcome
    /\ frame = NoFrame
    /\ stages = <<>>
    /\ ctx = "none"

\* A call of a function that runs to its end in one step.
Completes(name, arguments, outcome) ==
    /\ pc = "idle"
    /\ pc' = "returned"
    /\ fn' = name
    /\ args' = arguments
    /\ out' = outcome
    /\ UNCHANGED <<frame, stages>>

CallCfSchlichting ==
    \E Re \in ReInputs :
        /\ Completes("_cf_schlichting", [Re |-> Re], cf_schlichting(Re))
        /\ ctx' = "none"

CallCfLaminar ==
    \E Re \in ReInputs :
        /\ Completes("_cf_laminar", [Re |-> Re], cf_laminar(Re))
        /\ ctx' = "none"

CallEstimateWallDistance ==
    \E u_inf \in Velocities, rho \in Densities, mu \in Viscosities, L \in Lengths,
       y_plus \in YPlusTargets, regime \in RegimeInputs, transition_Re \in TransitionInputs :
        /\ Completes("estimate_wall_distance",
                     [u_inf |-> u_inf, rho |-> rho, mu |-> mu, L |-> L, y_plus |-> y_plus,
                      regime |-> regime, transition_Re |-> transition_Re],
                     estimate_wall_distance(u_inf, rho, mu, L, y_plus, regime, transition_Re))
        /\ ctx' = "none"

CallBoundaryLayerHeight ==
    \E length \in Lengths, Re \in ReInputs :
        /\ Completes("calculate_boundary_layer_height", [length |-> length, Re |-> Re],
                     calculate_boundary_layer_height(length, Re))
        /\ ctx' = "none"

\* The caller passes the Re of the wall-distance result it holds on to the
\* boundary-layer height estimator, as calculate_all_parameters does.
CallBoundaryLayerHeightOfResult ==
    /\ pc = "returned"
    /\ fn = "estimate_wall_distance"
    /\ ~Raised(out)
    /\ pc' = "returned"
    /\ fn' = "calculate_boundary_layer_height"
    /\ args' = [length |-> args.L, Re |-> out.val.Re]
    /\ out' = calculate_boundary_layer_height(args.L, out.val.Re)
    /\ ctx' = out.val.regime
    /\ UNCHANGED <<frame, stages>>

CallPrismLayerCells ==
    \E c \in PrismInputs :
      \E total_thickness \in {c[1]}, first_cell_height \in {c[2]}, growth_rate \in {c[3]} :
        /\ Completes("calculate_prism_layer_cells",
                     [total_thickness |-> total_thickness,
                      first_cell_height |-> first_cell_height,
                      growth_rate |-> growth_rate],
                     calculate_prism_layer_cells(total_thickness, first_cell_height,
                                                 growth_rate))
        /\ ctx' = "none"

(***************************************************************************)
(* calculate_all_parameters, one step per statement that calls an          *)
(* estimator.  An exception of a callee ends the call with that exception. *)
(***************************************************************************)
CallAllParameters ==
    /\ pc = "idle"
    /\ \E length \in Lengths, free_stream_velocity \in Velocities, density \in Densities,
          dynamic_viscosity \in Viscosities, y_plus_target \in YPlusTargets,
          growth_rate \in GrowthRates :
            args' = [length |-> length, free_stream_velocity |-> free_stream_velocity,
                     density |-> density, dynamic_viscosity |-> dynamic_viscosity,
                     y_plus_target |-> y_plus_target, growth_rate |-> growth_rate]
    /\ fn' = "calculate_all_parameters"
    /\ pc' = "line104"
    /\ out' = NoOutcome
    /\ frame' = NoFrame
    /\ stages' = <<>>
    /\ ctx' = "none"

\* Statement with the exception of the estimator caught: the call goes on
\* at `next` with what the frame holds.
Statement_catching(name, o, next, newframe) ==
    /\ stages' = Append(stages, [stage |-> name, outcome |-> o])
    /\ pc' = next
    /\ out' = out
    /\ frame' = newframe
    /\ UNCHANGED <<fn, args, ctx>>

\* The statement at pc called the estimator `name` with outcome o: on an
\* exception the call ends with it, otherwise the frame is updated and the
\* call goes on at `next`.
Statement(name, o, next, newframe) ==
    /\ stages' = Append(stages, [stage |-> name, outcome |-> o])
    /\ IF Raised(o)
       THEN pc' = "returned" /\ out' = o /\ frame' = frame
       ELSE pc' = next /\ out' = out /\ frame' = newframe
    /\ UNCHANGED <<fn, args, ctx>>

\* lines 104-112
WallDistanceStage ==
    /\ pc = "line104"
    /\ \E res \in {estimate_wall_distance(args.free_stream_velocity, args.density,
                                          args.dynamic_viscosity, args.length,
                                          args.y_plus_target, "auto", DefaultTransitionRe)} :
          Statement("estimate_wall_distance", res, "line114",
                    IF Raised(res) THEN frame
                    ELSE [frame EXCEPT !.res = res.val, !.Re = res.val.Re,
                                       !.first_cell_height = res.val.y])

\* line 114
BoundaryLayerStage ==
    /\ pc = "line114"
    /\ \E total_thickness \in {calculate_boundary_layer_height(args.length, frame.Re)} :
          Statement("calculate_boundary_layer_height", total_thickness, "line116",
                    [frame EXCEPT !.total_thickness = total_thickness.val])

\* line 116
PrismLayerStage ==
    /\ pc = "line116"
    /\ \E total_height \in {calculate_prism_layer_cells(frame.total_thickness,
                                                        frame.first_cell_height,
                                                        args.growth_rate)} :
          Statement("calculate_prism_layer_cells", total_height, "line117",
                    [frame EXCEPT !.total_height = total_height.val])

\* lines 117-122
ReturnResult ==
    /\ pc = "line117"
    /\ pc' = "returned"
    /\ out' = Ok([wall_distance |-> frame.first_cell_height,
                  total_boundary_layer_thickness |-> frame.total_thickness,
                  number_of_prism_layers |-> frame.total_height,
                  estimation_details |-> frame.res])
    /\ UNCHANGED <<fn, args, frame, stages, ctx>>

\* The caller drops the outcome; nothing of a call outlives it.
Resume ==
    /\ pc = "returned"
    /\ pc' = "idle"
    /\ fn' = "none"
    /\ args' = NoArgs
    /\ out' = NoOutcome
    /\ frame' = NoFrame
    /\ stages' = <<>>
    /\ ctx' = "none"

Next ==
    \/ CallCfSchlichting
    \/ CallCfLaminar
    \/ CallEstimateWallDistance
    \/ CallBoundaryLayerHeight
    \/ CallBoundaryLayerHeightOfResult
    \/ CallPrismLayerCells
    \/ CallAllParameters
    \/ WallDistanceStage
    \/ BoundaryLayerStage
    \/ PrismLayerStage
    \/ ReturnResult
    \/ Resume

Spec == Init /\ [][Next]_vars

(***************************************************************************)
(* Vocabulary of the properties.                                           *)
(***************************************************************************)
\* The class of every exception src/main.py raises itself; the error kind
\* InvalidInput of the specification.
InvalidInput == "ValueError"

StageOrder ==
    <<"estimate_wall_distance", "calculate_boundary_layer_height",
      "calculate_prism_layer_cells">>

\* Re as line 39 computes it, for calls that ended before returning it
ReynoldsOf(a) == PyTrueDiv(PyMul(PyMul(a.rho, a.u_inf), a.L), a.mu)

\* h0 * (r^n - 1) / (r - 1), the thickness of n cells, as float arithmetic gives it
GeometricSum(h0, r, n) ==
    Bind(PyPow(r, FromInt(WPrec, n)), LAMBDA rn :
         PyTrueDiv(PyMul(h0, Sub(Prec, rn, IntLit(1))), Sub(Prec, r, IntLit(1))))

\* n cells reach the thickness T
Reaches(h0, r, n, T) ==
    \E sum \in {GeometricSum(h0, r, n)} : ~Raised(sum) /\ Ge(sum.val, T)

(***************************************************************************)
(* C1: estimate_wall_distance resolves regime "auto" to laminar when       *)
(* Re < transition_Re and to turbulent when Re >= transition_Re (Re equal  *)
(* to the threshold is turbulent); a regime "laminar" or "turbulent" is    *)
(* kept whatever Re and the threshold are.                                 *)
(***************************************************************************)
C1_RegimeResolution ==
    ((pc = "returned" /\ fn = "estimate_wall_distance") /\ ~Raised(out)) =>
        /\ (args.regime = "auto" /\ Lt(out.val.Re, args.transition_Re))
              => out.val.regime = "laminar"
        /\ (args.regime = "auto" /\ Ge(out.val.Re, args.transition_Re))
              => out.val.regime = "turbulent"
        /\ args.regime # "auto" => out.val.regime = args.regime

\* a call with regime "auto" and Re exactly at the threshold has returned
C1_AutoAtThreshold ==
    /\ (pc = "returned" /\ fn = "estimate_wall_distance")
    /\ ~Raised(out)
    /\ args.regime = "auto"
    /\ Cmp(out.val.Re, args.transition_Re) = 0
    /\ out.val.regime = "turbulent"

(***************************************************************************)
(* C2: for T > 0, h0 > 0 and r > 1 the count n that                        *)
(* calculate_prism_layer_cells returns is the least number of cells whose  *)
(* geometric sum reaches T: n cells reach T and n - 1 cells do not.        *)
(***************************************************************************)
C2_MinimalCount ==
    ((pc = "returned" /\ fn = "calculate_prism_layer_cells") /\ ~Raised(out)) =>
        /\ Reaches(args.first_cell_height, args.growth_rate, out.val.m,
                   args.total_thickness)
        /\ ~Reaches(args.first_cell_height, args.growth_rate, out.val.m - 1,
                    args.total_thickness)

(***************************************************************************)
(* C3: _cf_schlichting fails with InvalidInput for Re <= 0, with an error  *)
(* of another kind (OutOfRange) for Re >= 1e9, and does not fail for       *)
(* 0 < Re < 1e9.                                                           *)
(***************************************************************************)
C3_TwoErrorKinds ==
    (pc = "returned" /\ fn = "_cf_schlichting") =>
        /\ Le(args.Re, Zero) => out.exc = InvalidInput
        /\ Ge(args.Re, SchlichtingLimit) => (Raised(out) /\ out.exc # InvalidInput)
        /\ (Gt(args.Re, Zero) /\ Lt(args.Re, SchlichtingLimit)) => ~Raised(out)

(***************************************************************************)
(* C4: calculate_all_parameters calls the wall-distance, boundary-layer    *)
(* height and prism-layer estimators in this order; after a stage has      *)
(* failed no other stage is called, the call has ended and its outcome is  *)
(* the failure of that stage; the call fails for no other reason, and it   *)
(* returns a result record only after three stages have succeeded.         *)
(***************************************************************************)
C4_StagesInOrderFailFast ==
    /\ Len(stages) <= Len(StageOrder)
    /\ \A i \in 1..Len(stages) :
          /\ stages[i].stage = StageOrder[i]
          /\ Raised(stages[i].outcome) =>
                (i = Len(stages) /\ pc = "returned" /\ out = stages[i].outcome)
    /\ (pc = "returned" /\ fn = "calculate_all_parameters") =>
          IF Raised(out)
          THEN Len(stages) > 0 /\ out = stages[Len(stages)].outcome
          ELSE /\ Len(stages) = Len(StageOrder)
               /\ \A i \in 1..Len(stages) : ~Raised(stages[i].outcome)
               /\ out.val.number_of_prism_layers = stages[Len(stages)].outcome.val

\* the third stage failed after two stages succeeded, and the caller got
\* its failure
C4_PrismStageFailed ==
    /\ (pc = "returned" /\ fn = "calculate_all_parameters")
    /\ Len(stages) = Len(StageOrder)
    /\ ~Raised(stages[1].outcome)
    /\ ~Raised(stages[2].outcome)
    /\ Raised(stages[Len(stages)].outcome)
    /\ out = stages[Len(stages)].outcome

(***************************************************************************)
(* C5: estimate_wall_distance returns y > 0 whenever u_inf, rho, mu, L and *)
(* y_plus are positive and Re is in the domain of the resolved regime      *)
(* (Re > 0 for laminar, 0 < Re < 1e9 for turbulent), for each of the       *)
(* regimes laminar, turbulent and auto.                                    *)
(***************************************************************************)
C5_PositiveWallDistance ==
    (/\ (pc = "returned" /\ fn = "estimate_wall_distance")
     /\ args.regime \in Regimes
     /\ \A x \in {args.u_inf, args.rho, args.mu, args.L, args.y_plus} : Gt(x, Zero)) =>
        \E Re \in {ReynoldsOf(args).val} :
            (/\ Gt(Re, Zero)
             /\ (\/ args.regime = "laminar"
                 \/ (args.regime = "auto" /\ Lt(Re, args.transition_Re))
                 \/ Lt(Re, SchlichtingLimit)))
            => (~Raised(out) /\ Gt(out.val.y, Zero))

(***************************************************************************)
(* C6: for 0 < Re < 1e9 the coefficient _cf_schlichting returns is a       *)
(* positive real number, and it is greater than the coefficient of every   *)
(* greater Re below 1e9.                                                   *)
(***************************************************************************)
C6_PositiveDecreasingCf ==
    (/\ (pc = "returned" /\ fn = "_cf_schlichting")
     /\ Gt(args.Re, Zero)
     /\ Lt(args.Re, SchlichtingLimit)) =>
        /\ ~Raised(out)
        /\ IsFin(out.val)
        /\ Gt(out.val, Zero)
        /\ \A Re2 \in ReInputs :
              (Gt(Re2, args.Re) /\ Lt(Re2, SchlichtingLimit)) =>
                  \E Cf2 \in {cf_schlichting(Re2)} :
                      ~Raised(Cf2) /\ Gt(out.val, Cf2.val)

(***************************************************************************)
(* C7: estimate_wall_distance called with a regime other than laminar,     *)
(* turbulent and auto fails with InvalidInput, whatever the other inputs   *)
(* are.                                                                    *)
(***************************************************************************)
C7_UnknownRegimeIsInvalidInput ==
    ((pc = "returned" /\ fn = "estimate_wall_distance") /\ args.regime \notin Regimes) =>
        out.exc = InvalidInput

(***************************************************************************)
(* C8: calculate_prism_layer_cells fails with InvalidInput exactly when    *)
(* total_thickness <= 0 or first_cell_height <= 0 or growth_rate <= 1, and *)
(* returns an integer for every other input.                               *)
(***************************************************************************)
C8_PrismInputValidation ==
    (pc = "returned" /\ fn = "calculate_prism_layer_cells") =>
        IF \/ Le(args.total_thickness, Zero)
           \/ Le(args.first_cell_height, Zero)
           \/ Le(args.growth_rate, IntLit(1))
        THEN out.exc = InvalidInput
        ELSE ~Raised(out) /\ out.val.k = "int"

(***************************************************************************)
(* C9: calculate_boundary_layer_height chooses its correlation from Re and *)
(* the fixed threshold 5e5 only: 4.91 * L / sqrt(Re) for Re < 5e5 and      *)
(* 0.16 * L / Re^(1/7) for Re >= 5e5.  Its result for the Re of a          *)
(* wall-distance result does not depend on the regime resolved there.      *)
(***************************************************************************)
C9_CorrelationByReOnly ==
    ((pc = "returned" /\ fn = "calculate_boundary_layer_height") /\ Gt(args.Re, Zero)) =>
        /\ Lt(args.Re, IntLit(500000)) => out = delta_laminar(args.length, args.Re)
        /\ Ge(args.Re, IntLit(500000)) => out = delta_turbulent(args.length, args.Re)

\* the turbulent correlation was used for the Re of a wall-distance result
\* whose regime is laminar
C9_LaminarRegimeTurbulentCorrelation ==
    /\ (pc = "returned" /\ fn = "calculate_boundary_layer_height")
    /\ ctx = "laminar"
    /\ Ge(args.Re, IntLit(500000))
    /\ ~Raised(out)
    /\ out = delta_turbulent(args.length, args.Re)
    /\ out # delta_laminar(args.length, args.Re)

(***************************************************************************)
(* C10: in every result calculate_all_parameters returns, wall_distance is *)
(* positive and is the y of estimation_details,                            *)
(* total_boundary_layer_thickness is positive, number_of_prism_layers is   *)
(* at least 1, and the regime of estimation_details is laminar exactly     *)
(* when Re < 5e5.                                                          *)
(***************************************************************************)
C10_ResultRecordInvariant ==
    ((pc = "returned" /\ fn = "calculate_all_parameters") /\ ~Raised(out)) =>
        /\ Gt(out.val.wall_distance, Zero)
        /\ out.val.wall_distance = out.val.estimation_details.y
        /\ Gt(out.val.total_boundary_layer_thickness, Zero)
        /\ out.val.number_of_prism_layers.m >= 1
        /\ out.val.estimation_details.regime = "laminar"
              <=> Lt(out.val.estimation_details.Re, IntLit(500000))

====
